---- MODULE Spec2Model ----
(***************************************************************************)
(* Model of video-share.py: class GitLFSVideoShare and main().             *)
(*                                                                         *)
(* Strings are sequences of characters, so that strip, endswith,           *)
(* startswith, slicing and replace are computed as Python computes them.   *)
(* A printable ASCII character and each of tab, line feed, form feed and   *)
(* carriage return is the one-character string of itself; any other        *)
(* character is the string "U+XXXX" of its code point.                     *)
(* A pathlib.Path is a record [root, parts], root being "", "/" or "//";   *)
(* a file system location is the sequence of the components of an         *)
(* absolute path.                                                          *)
(* The file system (dirs, files), the per-directory git state (remote,     *)
(* lfs) and the clock persist from one run of main() to the next; the      *)
(* other variables are the locals and fields of one run.                   *)
(***************************************************************************)
EXTENDS Integers, Sequences, FiniteSets, TLC

(* ------------------------------ bounds -------------------------------- *)

\* number of runs of main() that are explored
MaxRuns == 2
\* last value of the wall clock, in seconds after 00:00:00 of day BaseDay
MaxClock == 1

(* --------------------------- string helpers --------------------------- *)

Drop(s, n) == SubSeq(s, n + 1, Len(s))

Take(s, n) == SubSeq(s, 1, n)

\* str.startswith
StartsWith(s, pre) == Len(s) >= Len(pre) /\ Take(s, Len(pre)) = pre

\* str.endswith
EndsWith(s, suf) == Len(s) >= Len(suf) /\ Drop(s, Len(s) - Len(suf)) = suf

\* str.replace(old, new): left to right, non-overlapping
RECURSIVE Replace(_, _, _)
Replace(s, old, new) ==
    IF Len(s) < Len(old) \/ Len(old) = 0 THEN s
    ELSE IF StartsWith(s, old) THEN new \o Replace(Drop(s, Len(old)), old, new)
    ELSE <<Head(s)>> \o Replace(Tail(s), old, new)

RECURSIVE LStripChars(_, _)
LStripChars(s, cs) ==
    IF s # <<>> /\ Head(s) \in cs THEN LStripChars(Tail(s), cs) ELSE s

RECURSIVE RStripChars(_, _)
RStripChars(s, cs) ==
    IF s # <<>> /\ s[Len(s)] \in cs THEN RStripChars(Take(s, Len(s) - 1), cs) ELSE s

\* str.strip(chars)
StripChars(s, cs) == RStripChars(LStripChars(s, cs), cs)

\* the characters for which str.isspace() holds
Whitespace ==
    { "\t", "\n", "U+000B", "\f", "\r", "U+001C", "U+001D", "U+001E", "U+001F", " ",
      "U+0085", "U+00A0", "U+1680", "U+2000", "U+2001", "U+2002", "U+2003",
      "U+2004", "U+2005", "U+2006", "U+2007", "U+2008", "U+2009", "U+200A",
      "U+2028", "U+2029", "U+202F", "U+205F", "U+3000" }

\* str.strip()
Strip(s) == StripChars(s, Whitespace)

\* sep.join(parts)
RECURSIVE Join(_, _)
Join(parts, sep) ==
    IF parts = <<>> THEN <<>>
    ELSE IF Len(parts) = 1 THEN parts[1]
    ELSE parts[1] \o sep \o Join(Tail(parts), sep)

\* s.split(sep) for a one-character separator
RECURSIVE Split(_, _)
Split(s, sep) ==
    IF \A i \in 1..Len(s) : s[i] # sep THEN <<s>>
    ELSE LET k == CHOOSE i \in 1..Len(s) : s[i] = sep /\ \A j \in 1..(i - 1) : s[j] # sep
         IN  <<Take(s, k - 1)>> \o Split(Drop(s, k), sep)

\* s occurs in t as a contiguous substring
IsInfix(s, t) == \E i \in 0..(Len(t) - Len(s)) : SubSeq(t, i + 1, i + Len(s)) = s

(* ---------------------------- path helpers ---------------------------- *)

RECURSIVE DropDots(_)
DropDots(parts) ==
    IF parts = <<>> THEN <<>>
    ELSE IF Head(parts) = <<>> \/ Head(parts) = <<".">> THEN DropDots(Tail(parts))
    ELSE <<Head(parts)>> \o DropDots(Tail(parts))

\* the root pathlib finds: exactly two leading slashes are kept, one or
\* three and more are "/"
PathRoot(s) ==
    IF s = <<>> \/ Head(s) # "/" THEN <<>>
    ELSE IF Len(s) >= 2 /\ s[2] = "/" /\ (Len(s) = 2 \/ s[3] # "/") THEN <<"/", "/">>
    ELSE <<"/">>

\* pathlib.Path(s): empty and "." components are dropped
Path(s) == [root |-> PathRoot(s), parts |-> DropDots(Split(s, "/"))]

\* Path.__truediv__ with a string: a rooted right operand replaces the left
PathJoin(p, name) ==
    LET q == Path(name)
    IN  IF q.root # <<>> THEN q ELSE [p EXCEPT !.parts = @ \o q.parts]

\* str(Path)
PathStr(p) ==
    IF p.root # <<>> THEN p.root \o Join(p.parts, <<"/">>)
    ELSE IF p.parts = <<>> THEN <<".">>
    ELSE Join(p.parts, <<"/">>)

\* Path.name
PathName(p) == IF p.parts = <<>> THEN <<>> ELSE p.parts[Len(p.parts)]

\* Path.parent
PathParent(p) ==
    IF p.parts = <<>> THEN p ELSE [p EXCEPT !.parts = Take(@, Len(@) - 1)]

\* Path.stem: the name without its last suffix
PathStem(p) ==
    LET name == PathName(p)
        dots == {i \in 1..Len(name) : name[i] = "."}
    IN  IF dots = {} THEN name
        ELSE LET i == CHOOSE d \in dots : \A e \in dots : e <= d
             IN  IF 1 < i /\ i < Len(name) THEN Take(name, i - 1) ELSE name

\* lexical removal of ".." components, as os.path.normpath does
RECURSIVE NormParts(_, _)
NormParts(done, rest) ==
    IF rest = <<>> THEN done
    ELSE IF Head(rest) = <<".", ".">>
         THEN NormParts(IF done = <<>> THEN <<>> ELSE Take(done, Len(done) - 1), Tail(rest))
    ELSE NormParts(done \o <<Head(rest)>>, Tail(rest))

\* os.path.abspath, as the components below the root: the path is joined to
\* the current directory and normalised without looking at the file system
AbsPath(p, cwd) == NormParts(<<>>, IF p.root # <<>> THEN p.parts ELSE cwd \o p.parts)

RECURSIVE CommonLen(_, _)
CommonLen(a, b) ==
    IF a = <<>> \/ b = <<>> \/ Head(a) # Head(b) THEN 0
    ELSE 1 + CommonLen(Tail(a), Tail(b))

\* os.path.relpath(path, start)
RelPath(path, start, cwd) ==
    LET pl  == AbsPath(path, cwd)
        sl  == AbsPath(start, cwd)
        i   == CommonLen(pl, sl)
        rel == [k \in 1..(Len(sl) - i) |-> <<".", ".">>] \o Drop(pl, i)
    IN  IF rel = <<>> THEN <<".">> ELSE Join(rel, <<"/">>)

\* Path.is_relative_to / the condition under which relative_to succeeds
IsRelativeTo(p, base) ==
    /\ p.root = base.root
    /\ Len(p.parts) >= Len(base.parts)
    /\ Take(p.parts, Len(base.parts)) = base.parts

\* Path.relative_to(base)
RelativeTo(p, base) == [root |-> <<>>, parts |-> Drop(p.parts, Len(base.parts))]

(* --------------------------- string constants ------------------------- *)

N_home == <<"h", "o", "m", "e">>
N_repo == <<"r", "e", "p", "o">>
N_videos == <<"v", "i", "d", "e", "o", "s">>
N_pages == <<"p", "a", "g", "e", "s">>
N_qrcodes == <<"q", "r", "c", "o", "d", "e", "s">>
N_git == <<".", "g", "i", "t">>
N_gitattributes == <<".", "g", "i", "t", "a", "t", "t", "r", "i", "b", "u", "t", "e", "s">>
N_a_mp4 == <<"a", ".", "m", "p", "4">>
N_a_mkv == <<"a", ".", "m", "k", "v">>

\* "git@github.com:"
SshPrefix == <<"g", "i", "t", "@", "g", "i", "t", "h", "u", "b", ".", "c", "o", "m", ":">>
\* "https://"
HttpsScheme == <<"h", "t", "t", "p", "s", ":", "/", "/">>
\* "github.com"
GithubCom == <<"g", "i", "t", "h", "u", "b", ".", "c", "o", "m">>
\* "github.io"
GithubIo == <<"g", "i", "t", "h", "u", "b", ".", "i", "o">>
\* ".git"
DotGit == <<".", "g", "i", "t">>
\* ".html"
HtmlSuffix == <<".", "h", "t", "m", "l">>
\* "_qr.png"
QrSuffix == <<"_", "q", "r", ".", "p", "n", "g">>
\* " filter=lfs diff=lfs merge=lfs -text\n"
LfsAttrs == <<" ", "f", "i", "l", "t", "e", "r", "=", "l", "f", "s", " ", "d", "i", "f", "f", "=", "l", "f", "s", " ", "m", "e", "r", "g", "e", "=", "l", "f", "s", " ", "-", "t", "e", "x", "t", "\n">>

\* the three lines written to .gitattributes
GitattributesText ==
    <<"*", ".", "m", "p", "4">> \o LfsAttrs \o
    <<"*", ".", "m", "k", "v">> \o LfsAttrs \o
    <<"*", ".", "m", "o", "v">> \o LfsAttrs

(* ------------------------------- inputs ------------------------------- *)

\* the directory the process is started in
StartDir == <<N_home>>

\* answers to the repository path prompt: "/home/repo", "repo", "." and
\* "nodir", which does not exist
RepoInputs ==
    { <<"/", "h", "o", "m", "e", "/", "r", "e", "p", "o">>,
      <<"r", "e", "p", "o">>,
      <<".">>,
      <<"n", "o", "d", "i", "r">> }

\* answers to the video path prompt: /home/a.mp4, "/home/a.mkv" (dragged in,
\* with quotes) and /home/b.mp4, which does not exist
VideoInputs ==
    { <<"/", "h", "o", "m", "e", "/", "a", ".", "m", "p", "4">>,
      <<"\"", "/", "h", "o", "m", "e", "/", "a", ".", "m", "k", "v", "\"">>,
      <<"/", "h", "o", "m", "e", "/", "b", ".", "m", "p", "4">> }

\* answer to the hosting URL prompt: "https://u.github.io/r "
ManualInputs ==
    { <<"h", "t", "t", "p", "s", ":", "/", "/", "u", ".", "g", "i", "t", "h", "u", "b", ".", "i", "o", "/", "r", " ">> }

\* the remote.origin.url setting of a directory is <<>> when none is
\* configured and <<url>> when one is; the URL itself can be empty
NoRemote == <<>>

\* values of remote.origin.url, the empty one among them
RemoteUrls ==
    { <<>>,
      <<"h", "t", "t", "p", "s", ":", "/", "/", "g", "i", "t", "h", "u", "b", ".", "c", "o", "m", "/", "u", "/", "r", ".", "g", "i", "t">>,
      <<"g", "i", "t", "@", "g", "i", "t", "h", "u", "b", ".", "c", "o", "m", ":", "u", "/", "r", ".", "g", "i", "t">>,
      <<"h", "t", "t", "p", "s", ":", "/", "/", "g", "i", "t", "l", "a", "b", ".", "c", "o", "m", "/", "u", "/", "r", ".", "g", "i", "t">> }

\* exit statuses of the external git binary
ExitCodes == {0, 1}

\* the directories a RepoInputs answer can name
WorkDirs == {AbsPath(Path(r), StartDir) : r \in RepoInputs}

NoPath == [root |-> <<>>, parts |-> <<>>]

(* ------------------------------- clock -------------------------------- *)

\* the day the clock starts on, 2024-01-01, in days after 1970-01-01
BaseDay == 19723

Digit(n) == <<"0", "1", "2", "3", "4", "5", "6", "7", "8", "9">>[n + 1]

TwoDigits(n) == <<Digit((n \div 10) % 10), Digit(n % 10)>>

FourDigits(n) == TwoDigits(n \div 100) \o TwoDigits(n % 100)

\* the proleptic Gregorian date of the day z days after 1970-01-01, z >= 0
CivilDate(z) ==
    LET n   == z + 719468
        era == n \div 146097
        doe == n % 146097
        yoe == (doe - doe \div 1460 + doe \div 36524 - doe \div 146096) \div 365
        doy == doe - (365 * yoe + yoe \div 4 - yoe \div 100)
        mp  == (5 * doy + 2) \div 153
        m   == IF mp < 10 THEN mp + 3 ELSE mp - 9
    IN  [year  |-> yoe + era * 400 + (IF m <= 2 THEN 1 ELSE 0),
         month |-> m,
         day   |-> doy - (153 * mp + 2) \div 5 + 1]

\* datetime.now().strftime('%Y%m%d_%H%M%S') at t seconds after 00:00:00 of
\* day BaseDay
Timestamp(t) ==
    LET date == CivilDate(BaseDay + t \div 86400)
        sec  == t % 86400
    IN  FourDigits(date.year) \o TwoDigits(date.month) \o TwoDigits(date.day)
            \o <<"_">> \o TwoDigits(sec \div 3600) \o TwoDigits((sec \div 60) % 60)
            \o TwoDigits(sec % 60)

(* ------------------------------- state -------------------------------- *)

VARIABLES
    dirs,              \* file system: the directories that exist
    files,             \* file system: location -> [kind, by, data] of each file
    remote,            \* git: remote.origin.url of each working directory
    lfs,               \* git: working directories where `git lfs install` succeeded
    clock,             \* wall clock, seconds after 00:00:00 of day BaseDay
    run,               \* number of the current run of main()
    prevSetup,         \* working directories an earlier run set up successfully
    pc,                \* position of the current run
    repo_path,         \* self.repo_path
    cwd,               \* current directory of the process
    gitcalls,          \* git invocations of this run, with their exit status
    github_pages_url,  \* self.github_pages_url
    prompted,          \* the hosting URL prompt was shown in this run
    video_path,        \* main's video_path
    page_path,         \* share_video's page_path
    page_url,          \* share_video's page_url
    info,              \* what share_video returned, <<>> if nothing (yet)
    outcome,           \* how the run ended
    steps,             \* the steps of share_video completed in this run
    created            \* locations this run created or wrote

vars == <<dirs, files, remote, lfs, clock, run, prevSetup, pc, repo_path, cwd,
          gitcalls, github_pages_url, prompted, video_path, page_path, page_url,
          info, outcome, steps, created>>

fsVars == <<dirs, files, created>>
gitVars == <<remote, lfs>>
envVars == <<clock, run, prevSetup>>
shareVars == <<video_path, page_path, page_url, info, steps>>

\* self.videos_dir
videos_dir == PathJoin(repo_path, N_videos)

\* self.pages_dir
pages_dir == PathJoin(repo_path, N_pages)

\* share_video's video_name
video_name == PathName(Path(video_path))

\* share_video's target_path
target_path == PathJoin(videos_dir, video_name)

\* share_video's qr_path
qr_path == PathJoin(PathJoin(repo_path, N_qrcodes), PathStem(Path(video_name)) \o QrSuffix)

Parent(loc) == IF loc = <<>> THEN <<>> ELSE Take(loc, Len(loc) - 1)

\* what a path resolves to when a component that is followed by another one
\* is not a directory: a location that does not exist and has no parent
Nowhere == << <<>>, <<>> >>

\* the kernel's path resolution in a file system with the directories ds:
\* every component that is followed by another one must be a directory
RECURSIVE WalkIn(_, _, _)
WalkIn(ds, cur, comps) ==
    IF comps = <<>> THEN cur
    ELSE IF cur \notin ds THEN Nowhere
    ELSE IF Head(comps) = <<>> \/ Head(comps) = <<".">> THEN WalkIn(ds, cur, Tail(comps))
    ELSE IF Head(comps) = <<".", ".">> THEN WalkIn(ds, Parent(cur), Tail(comps))
    ELSE WalkIn(ds, cur \o <<Head(comps)>>, Tail(comps))

\* the location a Path of the program names in a file system with directories ds
LocIn(ds, p) == WalkIn(ds, IF p.root # <<>> THEN <<>> ELSE cwd, p.parts)

\* the location a Path of the program names now
Loc(p) == LocIn(dirs, p)

\* the location a path string names now
StrLoc(s) == WalkIn(dirs, IF s # <<>> /\ Head(s) = "/" THEN <<>> ELSE cwd, Split(s, "/"))

\* os.path.basename
Basename(s) == LET c == Split(s, "/") IN c[Len(c)]

\* where shutil.copy2 writes: a destination that is a directory receives the
\* copy under the source's base name
CopyDest(src, dst) == IF dst \in dirs THEN dst \o <<Basename(src)>> ELSE dst

Exists(loc) == loc \in dirs \/ loc \in DOMAIN files

\* Path.mkdir(exist_ok=True) succeeds
MkdirOk(ds, loc) == loc \in ds \/ (Parent(loc) \in ds /\ loc \notin DOMAIN files)

\* open(path, 'w') succeeds
OpenWriteOk(loc) == Parent(loc) \in dirs /\ loc \notin dirs

WriteFile(loc, rec) ==
    files' = [l \in DOMAIN files \cup {loc} |-> IF l = loc THEN rec ELSE files[l]]

Call(cmd, rc) == gitcalls' = Append(gitcalls, [cmd |-> cmd, rc |-> rc])

\* _run_command with the check of the exit status left out
CommandFails_never(rc) == FALSE

\* _run_command raises
CommandFails(rc) == rc # 0

TypeOK ==
    /\ pc \in {"main", "mkdirs", "chdir", "check_git", "git_init", "write_attrs",
               "lfs_install", "get_url", "input_video", "copy", "create_page",
               "make_qr", "git_add", "git_commit", "done", "exit1"}
    /\ outcome \in {"none", "setup_failed", "no_file", "share_failed", "success"}
    /\ run \in 1..MaxRuns
    /\ clock \in 0..MaxClock
    /\ cwd \in dirs
    /\ prevSetup \subseteq WorkDirs
    /\ lfs \subseteq WorkDirs
    /\ Len(info) <= 1

Init ==
    /\ \E hasGit \in BOOLEAN :
         /\ dirs = {<<>>, <<N_home>>, <<N_home, N_repo>>}
                     \cup (IF hasGit THEN {<<N_home, N_repo, N_git>>} ELSE {})
         /\ \E r \in (IF hasGit THEN {<<url>> : url \in RemoteUrls} \cup {NoRemote}
                                 ELSE {NoRemote}) :
              remote = [d \in WorkDirs |-> IF d = <<N_home, N_repo>> THEN r ELSE NoRemote]
    /\ files = (<<N_home, N_a_mp4>> :> [kind |-> "video", by |-> 0, data |-> <<"A">>])
            @@ (<<N_home, N_a_mkv>> :> [kind |-> "video", by |-> 0, data |-> <<"B">>])
    /\ lfs = {}
    /\ clock = 0
    /\ run = 1
    /\ prevSetup = {}
    /\ pc = "main"
    /\ repo_path = NoPath
    /\ cwd = StartDir
    /\ gitcalls = <<>>
    /\ github_pages_url = <<>>
    /\ prompted = FALSE
    /\ video_path = <<>>
    /\ page_path = NoPath
    /\ page_url = <<>>
    /\ info = <<>>
    /\ outcome = "none"
    /\ steps = <<>>
    /\ created = {}

(* ----------------- __init__ and setup_repository ---------------------- *)

\* except Exception of setup_repository: print, sys.exit(1)
SetupFails == pc' = "exit1" /\ outcome' = "setup_failed"

\* except Exception of share_video re-raises, main prints the error
ShareFails == pc' = "done" /\ outcome' = "share_failed"

\* main: the repository path prompt, then __init__ up to setup_repository
Main ==
    /\ pc = "main"
    /\ \E answer \in RepoInputs : repo_path' = Path(Strip(answer))
    /\ pc' = "mkdirs"
    /\ UNCHANGED <<fsVars, gitVars, envVars, shareVars, cwd, gitcalls,
                   github_pages_url, prompted, outcome>>

\* videos_dir.mkdir(exist_ok=True); pages_dir.mkdir(exist_ok=True)
Mkdirs ==
    /\ pc = "mkdirs"
    /\ LET v  == Loc(videos_dir)
           d1 == dirs \cup {v}
           p  == LocIn(d1, pages_dir)
       IN  IF ~MkdirOk(dirs, v)
           THEN SetupFails /\ UNCHANGED fsVars
           ELSE IF ~MkdirOk(d1, p)
           THEN /\ SetupFails
                /\ dirs' = d1
                /\ created' = created \cup (d1 \ dirs)
                /\ UNCHANGED files
           ELSE /\ pc' = "chdir"
                /\ dirs' = d1 \cup {p}
                /\ created' = created \cup (dirs' \ dirs)
                /\ UNCHANGED <<files, outcome>>
    /\ UNCHANGED <<gitVars, envVars, shareVars, repo_path, cwd, gitcalls,
                   github_pages_url, prompted>>

\* os.chdir(self.repo_path)
Chdir ==
    /\ pc = "chdir"
    /\ IF Loc(repo_path) \in dirs
       THEN cwd' = Loc(repo_path) /\ pc' = "check_git" /\ UNCHANGED outcome
       ELSE SetupFails /\ UNCHANGED cwd
    /\ UNCHANGED <<fsVars, gitVars, envVars, shareVars, repo_path, gitcalls,
                   github_pages_url, prompted>>

\* if not (self.repo_path / '.git').exists()
CheckGit ==
    /\ pc = "check_git"
    /\ pc' = IF ~Exists(Loc(PathJoin(repo_path, N_git))) THEN "git_init" ELSE "get_url"
    /\ UNCHANGED <<fsVars, gitVars, envVars, shareVars, repo_path, cwd, gitcalls,
                   github_pages_url, prompted, outcome>>

\* self._run_command(['git', 'init'])
GitInit ==
    /\ pc = "git_init"
    /\ \E rc \in ExitCodes :
         /\ Call("init", rc)
         /\ IF CommandFails(rc)
            THEN SetupFails /\ UNCHANGED fsVars
            ELSE /\ pc' = "write_attrs"
                 /\ dirs' = dirs \cup {cwd \o <<N_git>>}
                 /\ created' = created \cup (dirs' \ dirs)
                 /\ UNCHANGED <<files, outcome>>
    /\ UNCHANGED <<gitVars, envVars, shareVars, repo_path, cwd,
                   github_pages_url, prompted>>

\* with open('.gitattributes', 'w') as f: three f.write
WriteAttrs ==
    /\ pc = "write_attrs"
    /\ LET loc == Loc(Path(N_gitattributes))
       IN  IF OpenWriteOk(loc)
           THEN /\ WriteFile(loc, [kind |-> "attrs", by |-> run, data |-> GitattributesText])
                /\ created' = created \cup {loc}
                /\ pc' = "lfs_install"
                /\ UNCHANGED outcome
           ELSE SetupFails /\ UNCHANGED <<files, created>>
    /\ UNCHANGED <<dirs, gitVars, envVars, shareVars, repo_path, cwd, gitcalls,
                   github_pages_url, prompted>>

\* self._run_command(['git', 'lfs', 'install'])
LfsInstall ==
    /\ pc = "lfs_install"
    /\ \E rc \in ExitCodes :
         /\ Call("lfs install", rc)
         /\ IF CommandFails(rc)
            THEN SetupFails /\ UNCHANGED lfs
            ELSE pc' = "get_url" /\ lfs' = lfs \cup {cwd} /\ UNCHANGED outcome
    /\ UNCHANGED <<fsVars, remote, envVars, shareVars, repo_path, cwd,
                   github_pages_url, prompted>>

(* -------------------------- _get_github_url --------------------------- *)

\* what `git config --get remote.origin.url` prints
ConfigStdout(url) == url \o <<"\n">>

\* the conversion of the remote URL to the hosting base URL
ConvertUrl(stdout) ==
    LET url0 == Strip(stdout)
        url1 == IF EndsWith(url0, DotGit) THEN Take(url0, Len(url0) - 4) ELSE url0
        url2 == IF StartsWith(url1, SshPrefix) THEN HttpsScheme \o Drop(url1, 15) ELSE url1
    IN  Replace(url2, GithubCom, GithubIo)

\* self.github_pages_url = self._get_github_url()
GetGithubUrl ==
    /\ pc = "get_url"
    /\ LET rc == IF remote[cwd] # NoRemote THEN 0 ELSE 1
       IN  /\ Call("config", rc)
           /\ IF rc = 0
              THEN /\ github_pages_url' = ConvertUrl(ConfigStdout(remote[cwd][1]))
                   /\ UNCHANGED prompted
              ELSE /\ \E answer \in ManualInputs : github_pages_url' = Strip(answer)
                   /\ prompted' = TRUE
    /\ pc' = "input_video"
    /\ UNCHANGED <<fsVars, gitVars, envVars, shareVars, repo_path, cwd, outcome>>

(* ------------------------------- main --------------------------------- *)

\* os.path.exists(path)
PathExists(s) == s # <<>> /\ Exists(StrLoc(s))

\* the video path prompt and the existence check
InputVideo ==
    /\ pc = "input_video"
    /\ \E answer \in VideoInputs : video_path' = StripChars(Strip(answer), {"\""})
    /\ IF ~PathExists(video_path')
       THEN pc' = "done" /\ outcome' = "no_file"
       ELSE pc' = "copy" /\ UNCHANGED outcome
    /\ UNCHANGED <<fsVars, gitVars, envVars, page_path, page_url, info, steps,
                   repo_path, cwd, gitcalls, github_pages_url, prompted>>

(* ---------------------------- share_video ----------------------------- *)

\* shutil.copy2(video_path, target_path): a target that is a directory
\* receives the copy under the source's base name
CopyVideo ==
    /\ pc = "copy"
    /\ LET src == StrLoc(video_path)
           dst == CopyDest(video_path, Loc(target_path))
       IN  IF src \in DOMAIN files /\ Parent(dst) \in dirs /\ dst \notin dirs /\ src # dst
           THEN /\ WriteFile(dst, [kind |-> "video", by |-> run, data |-> files[src].data])
                /\ created' = created \cup {dst}
                /\ steps' = Append(steps, "copy")
                /\ pc' = "create_page"
                /\ UNCHANGED outcome
           ELSE ShareFails /\ UNCHANGED <<files, created, steps>>
    /\ UNCHANGED <<dirs, gitVars, envVars, video_path, page_path, page_url, info,
                   repo_path, cwd, gitcalls, github_pages_url, prompted>>

\* the value of the src attribute of the page's <source> tag
SourceSrc(video_relative_path) == <<"/">> \o video_relative_path

\* page_name of create_player_page
PageName(t, title) == Timestamp(t) \o <<"_">> \o PathStem(Path(title)) \o HtmlSuffix

\* page_path = self.create_player_page(target_path, video_name)
\* A page file is recorded by the src attribute of its <source> tag, the only
\* part of the template that depends on the video's location.
CreatePlayerPage ==
    /\ pc = "create_page"
    /\ LET video_relative_path == RelPath(target_path, repo_path, cwd)
           path == PathJoin(pages_dir, PageName(clock, video_name))
       IN  IF OpenWriteOk(Loc(path))
           THEN /\ WriteFile(Loc(path), [kind |-> "page", by |-> run,
                                         data |-> SourceSrc(video_relative_path)])
                /\ created' = created \cup {Loc(path)}
                /\ page_path' = path
                /\ steps' = Append(steps, "page")
                /\ pc' = "make_qr"
                /\ UNCHANGED outcome
           ELSE ShareFails /\ UNCHANGED <<files, created, page_path, steps>>
    /\ UNCHANGED <<dirs, gitVars, envVars, video_path, page_url, info,
                   repo_path, cwd, gitcalls, github_pages_url, prompted>>

\* the URL built from the page's file name instead of its relative path
PageUrl_nameOnly(base, page_relative_path) ==
    base \o <<"/">> \o PathName(page_relative_path)

\* page_url = f"{self.github_pages_url}/{page_relative_path}"
PageUrl(base, page_relative_path) == base \o <<"/">> \o PathStr(page_relative_path)

\* the URL, the QR code and its image file: relative_to (line 153) raises
\* before page_url is assigned, mkdir (168) and save (170) after it
MakeQr ==
    /\ pc = "make_qr"
    /\ LET qdir == Loc(PathParent(qr_path))
           d1   == dirs \cup {qdir}
           qloc == LocIn(d1, qr_path)
       IN  IF ~IsRelativeTo(page_path, repo_path)
           THEN ShareFails /\ UNCHANGED <<fsVars, page_url, steps>>
           ELSE /\ page_url' = PageUrl(github_pages_url, RelativeTo(page_path, repo_path))
                /\ IF ~MkdirOk(dirs, qdir)
                   THEN ShareFails /\ UNCHANGED <<fsVars, steps>>
                   ELSE /\ dirs' = d1
                        /\ IF qloc \in d1
                           THEN /\ ShareFails
                                /\ created' = created \cup (d1 \ dirs)
                                /\ UNCHANGED <<files, steps>>
                           ELSE /\ WriteFile(qloc, [kind |-> "qr", by |-> run,
                                                    data |-> page_url'])
                                /\ created' = created \cup (d1 \ dirs) \cup {qloc}
                                /\ steps' = Append(steps, "qr")
                                /\ pc' = "git_add"
                                /\ UNCHANGED outcome
    /\ UNCHANGED <<gitVars, envVars, video_path, page_path, info,
                   repo_path, cwd, gitcalls, github_pages_url, prompted>>

\* self._run_command(['git', 'add', '.'])
GitAdd ==
    /\ pc = "git_add"
    /\ \E rc \in ExitCodes :
         /\ Call("add", rc)
         /\ IF CommandFails(rc)
            THEN ShareFails /\ UNCHANGED steps
            ELSE pc' = "git_commit" /\ steps' = Append(steps, "add") /\ UNCHANGED outcome
    /\ UNCHANGED <<fsVars, gitVars, envVars, video_path, page_path, page_url, info,
                   repo_path, cwd, github_pages_url, prompted>>

\* self._run_command(['git', 'commit', ...]) and the returned dictionary
GitCommit ==
    /\ pc = "git_commit"
    /\ \E rc \in ExitCodes :
         /\ Call("commit", rc)
         /\ IF CommandFails(rc)
            THEN ShareFails /\ UNCHANGED <<steps, info>>
            ELSE /\ pc' = "done"
                 /\ outcome' = "success"
                 /\ steps' = Append(steps, "commit")
                 /\ info' = << [video_path |-> PathStr(target_path),
                                page_path  |-> PathStr(page_path),
                                page_url   |-> page_url,
                                qr_path    |-> PathStr(qr_path)] >>
    /\ UNCHANGED <<fsVars, gitVars, envVars, video_path, page_path, page_url,
                   repo_path, cwd, github_pages_url, prompted>>

(* ---------------------------- environment ----------------------------- *)

Terminated == pc \in {"done", "exit1"}

\* the operator starts the program again, in the same starting directory
NewRun ==
    /\ Terminated
    /\ run < MaxRuns
    /\ run' = run + 1
    /\ prevSetup' = prevSetup \cup (IF pc = "done" THEN {cwd} ELSE {})
    /\ pc' = "main"
    /\ repo_path' = NoPath
    /\ cwd' = StartDir
    /\ gitcalls' = <<>>
    /\ github_pages_url' = <<>>
    /\ prompted' = FALSE
    /\ video_path' = <<>>
    /\ page_path' = NoPath
    /\ page_url' = <<>>
    /\ info' = <<>>
    /\ outcome' = "none"
    /\ steps' = <<>>
    /\ created' = {}
    /\ UNCHANGED <<dirs, files, remote, lfs, clock>>

\* a second passes; the clock is read only by create_player_page, so time
\* passing between two runs covers every reading the runs can make
Tick ==
    /\ Terminated
    /\ clock < MaxClock
    /\ clock' = clock + 1
    /\ UNCHANGED <<dirs, files, remote, lfs, run, prevSetup, pc, repo_path, cwd,
                   gitcalls, github_pages_url, prompted, video_path, page_path,
                   page_url, info, outcome, steps, created>>

Next ==
    \/ Main
    \/ Mkdirs
    \/ Chdir
    \/ CheckGit
    \/ GitInit
    \/ WriteAttrs
    \/ LfsInstall
    \/ GetGithubUrl
    \/ InputVideo
    \/ CopyVideo
    \/ CreatePlayerPage
    \/ MakeQr
    \/ GitAdd
    \/ GitCommit
    \/ NewRun
    \/ Tick

Spec == Init /\ [][Next]_vars

(* ------------------------------ properties ---------------------------- *)

\* setup_repository returned: the run is past line 42
SetupCompleted ==
    pc \in {"input_video", "copy", "create_page", "make_qr", "git_add", "git_commit", "done"}

Invoked(cmd) == \E i \in 1..Len(gitcalls) : gitcalls[i].cmd = cmd

Completed(step) == \E i \in 1..Len(steps) : steps[i] = step

\* the working directory the operator named, seen from the starting directory
WorkDir == AbsPath(repo_path, StartDir)

\* where this run's copy of the video is
CopyLoc == CopyDest(video_path, Loc(target_path))

\* the page's path relative to the working directory root, as a string
PageRelativeStr == Join(Drop(Loc(page_path), Len(cwd)), <<"/">>)

\* C1: when the operator supplies a video path that does not exist, the run
\* has created no file or directory and has invoked no git command.
C1_MissingVideoLeavesNoTrace ==
    outcome = "no_file" => (created = {} /\ gitcalls = <<>>)

\* C2: initialising a working directory that an earlier run has already set
\* up, named by an absolute or by a relative path, invokes neither `git init`
\* nor `git lfs install` and does not rewrite .gitattributes.
C2_SecondInitDoesNotReinitialize ==
    (pc # "main" /\ WorkDir \in prevSetup) =>
        /\ ~Invoked("init")
        /\ ~Invoked("lfs install")
        /\ (WorkDir \o <<N_gitattributes>>) \notin created

\* C3 as stated: after a successful share_video the QR content and the
\* returned page_url are the hosting base URL immediately followed by the
\* page's path relative to the working directory root.
C3_UrlIsBaseThenRelativePath ==
    outcome = "success" =>
        /\ page_url = github_pages_url \o PageRelativeStr
        /\ info[1].page_url = github_pages_url \o PageRelativeStr
        /\ files[Loc(qr_path)].data = github_pages_url \o PageRelativeStr

\* C3 amended: after a successful share_video the QR content and the returned
\* page_url are the hosting base URL, one "/" and the page's path relative to
\* the working directory root, and that page exists.
C3_UrlIsBaseSlashRelativePath ==
    outcome = "success" =>
        /\ page_url = github_pages_url \o <<"/">> \o PageRelativeStr
        /\ info[1].page_url = github_pages_url \o <<"/">> \o PageRelativeStr
        /\ files[Loc(qr_path)].kind = "qr"
        /\ files[Loc(qr_path)].data = github_pages_url \o <<"/">> \o PageRelativeStr
        /\ Loc(page_path) \in DOMAIN files
        /\ files[Loc(page_path)].kind = "page"

\* a share succeeded with a base URL derived from the remote
C3_Witness ==
    /\ outcome = "success"
    /\ ~prompted
    /\ github_pages_url # <<>>
    /\ files[Loc(qr_path)].by = run

\* C4: the page filename create_player_page generates contains the video's
\* name and the timestamp, and differs from the filename of every page an
\* earlier invocation generated, also within the same clock second.
C4_PageNamesUnique ==
    [][(pc = "create_page" /\ pc' = "make_qr") =>
          /\ IsInfix(PathStem(Path(video_name)), PathName(page_path'))
          /\ IsInfix(Timestamp(clock), PathName(page_path'))
          /\ \A l \in DOMAIN files :
                files[l].kind = "page" => l[Len(l)] # PathName(page_path')]_vars

\* C5 as stated: a non-zero exit status of any git invocation ends the run:
\* it is the last thing the run did and the run does not report success.
C5_AnyNonZeroExitIsFatal ==
    \A i \in 1..Len(gitcalls) :
        gitcalls[i].rc # 0 =>
            /\ i = Len(gitcalls)
            /\ Terminated
            /\ outcome \in {"setup_failed", "share_failed"}

\* C5 amended: a non-zero exit status of git init, git lfs install, git add or
\* git commit ends the run without success; a non-zero exit status of
\* git config --get remote.origin.url makes the run prompt for the hosting
\* URL and go on.
C5_RunCommandFailureIsFatal ==
    \A i \in 1..Len(gitcalls) :
        gitcalls[i].rc # 0 =>
            IF gitcalls[i].cmd = "config"
            THEN /\ prompted
                 /\ github_pages_url \in {Strip(a) : a \in ManualInputs}
            ELSE /\ i = Len(gitcalls)
                 /\ Terminated
                 /\ outcome \in {"setup_failed", "share_failed"}
                 /\ info = <<>>

\* git config failed, the run went on, and git commit failed at the end
C5_Witness ==
    /\ Len(gitcalls) >= 2
    /\ gitcalls[1] = [cmd |-> "config", rc |-> 1]
    /\ gitcalls[Len(gitcalls)] = [cmd |-> "commit", rc |-> 1]
    /\ outcome = "share_failed"

\* C6: when the configured remote origin URL is not a github.com remote, the
\* hosting base URL is the operator's answer to the prompt.
C6_OtherRemoteFallsBackToPrompt ==
    (Invoked("config") /\ remote[cwd] # NoRemote /\ ~IsInfix(GithubCom, remote[cwd][1])) =>
        /\ prompted
        /\ github_pages_url \in {Strip(a) : a \in ManualInputs}

\* C7: the src of the <source> tag of the generated page is the video's path
\* relative to the working directory root, videos/<name>, with no leading "/".
C7_PageSrcIsRelativePath ==
    Completed("page") =>
        /\ files[Loc(page_path)].data = N_videos \o <<"/">> \o video_name
        /\ Head(files[Loc(page_path)].data) # "/"

\* C8: once setup_repository has completed, large-file tracking is set up in
\* the working directory: .gitattributes holds the LFS patterns and
\* `git lfs install` has run, also when .git was already there.
C8_SetupEstablishesLfs ==
    SetupCompleted =>
        /\ (cwd \o <<N_gitattributes>>) \in DOMAIN files
        /\ files[cwd \o <<N_gitattributes>>].data = GitattributesText
        /\ cwd \in lfs

ShareOrder == <<"copy", "page", "qr", "add", "commit">>

\* C9: share_video runs copy, page write, QR write, git add, git commit in
\* this order, each after the one before has completed; git commit is invoked
\* only after git add exited with 0, git is invoked only after the three
\* files were written, and a result is returned only if the commit succeeded.
C9_ShareStepsInOrder ==
    /\ Len(steps) <= Len(ShareOrder)
    /\ \A i \in 1..Len(steps) : steps[i] = ShareOrder[i]
    /\ \A i \in 1..Len(gitcalls) :
          gitcalls[i].cmd = "commit" =>
              i > 1 /\ gitcalls[i - 1] = [cmd |-> "add", rc |-> 0]
    /\ (Invoked("add") \/ Invoked("commit")) =>
          /\ CopyLoc \in created /\ files[CopyLoc].by = run
          /\ Loc(page_path) \in created /\ files[Loc(page_path)].by = run
          /\ Loc(qr_path) \in created /\ files[Loc(qr_path)].by = run
    /\ Completed("add") => \E i \in 1..Len(gitcalls) : gitcalls[i] = [cmd |-> "add", rc |-> 0]
    /\ info # <<>> =>
          /\ gitcalls[Len(gitcalls)] = [cmd |-> "commit", rc |-> 0]
          /\ steps = ShareOrder
          /\ outcome = "success"

\* a share ran to the end and returned its result
C9_Witness ==
    /\ info # <<>>
    /\ steps = ShareOrder
    /\ Invoked("commit")

\* C10: no step overwrites a video copy, page or QR image that an earlier
\* step wrote.
C10_ArtifactsNeverOverwritten ==
    [][\A l \in DOMAIN files :
          (files[l].kind \in {"video", "page", "qr"} /\ files[l].by >= 1) =>
              (l \in DOMAIN files' /\ files'[l] = files[l])]_vars

====
